---- MODULE Spec2Model ----
(***************************************************************************)
(* Model of BOT.py: the address book (Field / Phone / Birthday / Record /  *)
(* AddressBook), its command handlers and the command loop of main().      *)
(*                                                                         *)
(* Text is modelled as follows.                                            *)
(*  - A phone string is a sequence of Unicode code points.                 *)
(*  - A date text "DD.MM.YYYY" is the record [d, m, y] of the three        *)
(*    numbers written in it; strptime decides whether they form a date.    *)
(*  - Names, e-mails and message texts are TLA+ strings.                   *)
(* An operation that can raise returns a record whose field "raised" is    *)
(* the exception class ("" when it returns normally).                      *)
(***************************************************************************)
EXTENDS Integers, Sequences, FiniteSets, TLC

(***************************************************************************)
(* Bounds of the model.                                                    *)
(***************************************************************************)
\* longest phones list a record is grown to
MaxPhones == 2

\* strings tried by the phone validation run from PhoneLen - LenSlack
\* to PhoneLen + LenSlack characters
LenSlack == 1

(***************************************************************************)
(* Program constants.                                                      *)
(***************************************************************************)
\* len(value) != 10
PhoneLen == 10

\* 0 <= days_until_birthday <= 7
WindowDays == 7

\* birthday_this_year.weekday() >= 5
Saturday == 5

\* days_to_add = 7 - birthday_this_year.weekday()
WeekLen == 7

None == [none |-> TRUE]

(***************************************************************************)
(* Characters and phone strings.                                           *)
(***************************************************************************)
\* '0'..'9'
AsciiDigits == 48..57

\* code points outside '0'..'9' for which str.isdigit() is true:
\* SUPERSCRIPT TWO and the ARABIC-INDIC DIGITS
UnicodeDigits == {178} \cup (1632..1641)

\* str.isdigit(): non-empty and every character is a digit
isdigit(s) ==
    /\ Len(s) > 0
    /\ \A i \in 1..Len(s) : s[i] \in AsciiDigits \cup UnicodeDigits

Rep(c, n) == [i \in 1..n |-> c]

\* "1111111111", "2222222222"
P1 == Rep(49, PhoneLen)
P2 == Rep(50, PhoneLen)
\* "111111111" (nine digits)
PShort == Rep(49, PhoneLen - 1)
\* "abc"
PAlpha == <<97, 98, 99>>

PhoneArgs == {P1, P2, PShort}

\* Phone.__init__: raises ValueError unless isdigit and len == 10;
\* otherwise Field.__init__ stores the value as given.
Phone(value) ==
    IF ~isdigit(value) \/ Len(value) # PhoneLen
    THEN [raised |-> "ValueError", text |-> "Phone number must be 10 digits.", value |-> <<>>]
    ELSE [raised |-> "", text |-> "", value |-> value]

(***************************************************************************)
(* Calendar arithmetic of datetime.date (proleptic Gregorian).             *)
(***************************************************************************)
IsLeap(y) == y % 4 = 0 /\ (y % 100 # 0 \/ y % 400 = 0)

DaysInMonth(y, m) ==
    IF m = 2 THEN (IF IsLeap(y) THEN 29 ELSE 28)
    ELSE IF m \in {4, 6, 9, 11} THEN 30 ELSE 31

DaysBeforeYear(y) ==
    (y - 1) * 365 + ((y - 1) \div 4) - ((y - 1) \div 100) + ((y - 1) \div 400)

RECURSIVE DaysBeforeMonth(_, _)
DaysBeforeMonth(y, m) ==
    IF m = 1 THEN 0 ELSE DaysBeforeMonth(y, m - 1) + DaysInMonth(y, m - 1)

\* the numbers form a date datetime can construct
IsDate(t) ==
    /\ t.y \in 1..9999
    /\ t.m \in 1..12
    /\ t.d \in 1..DaysInMonth(t.y, t.m)

\* date.toordinal(): 1 for 01.01.0001
ToOrdinal(t) == DaysBeforeYear(t.y) + DaysBeforeMonth(t.y, t.m) + t.d

\* date.fromordinal(n), as datetime._ord2ymd computes it
FromOrdinal(ord) ==
    LET n0   == ord - 1
        n400 == n0 \div 146097
        r400 == n0 % 146097
        n100 == r400 \div 36524
        r100 == r400 % 36524
        n4   == r100 \div 1461
        r4   == r100 % 1461
        n1   == r4 \div 365
        n    == r4 % 365
        year == n400 * 400 + 1 + n100 * 100 + n4 * 4 + n1
        leap == n1 = 3 /\ (n4 # 24 \/ n100 = 3)
        mEst == (n + 50) \div 32
        pEst == DaysBeforeMonth(IF leap THEN 4 ELSE 1, mEst)
        month == IF pEst > n THEN mEst - 1 ELSE mEst
        prec  == DaysBeforeMonth(IF leap THEN 4 ELSE 1, month)
    IN  IF n1 = 4 \/ n100 = 4
        THEN [d |-> 31, m |-> 12, y |-> year - 1]
        ELSE [d |-> n - prec + 1, m |-> month, y |-> year]

\* date.weekday(): Monday is 0, Sunday is 6
weekday(t) == (ToOrdinal(t) + 6) % 7

\* date + timedelta(days=k)
AddDays(t, k) == FromOrdinal(ToOrdinal(t) + k)

\* datetime.strptime(value, "%d.%m.%Y"): ValueError unless the text is a date
strptime(value) ==
    IF IsDate(value)
    THEN [raised |-> "", date |-> value]
    ELSE [raised |-> "ValueError", date |-> value]

\* date.replace(year=y): ValueError when the day does not exist in year y
replace(t, year) ==
    IF IsDate([d |-> t.d, m |-> t.m, y |-> year])
    THEN [raised |-> "", date |-> [d |-> t.d, m |-> t.m, y |-> year]]
    ELSE [raised |-> "ValueError", date |-> t]

\* Birthday.__init__: the text is stored as given when strptime accepts it
Birthday(value) ==
    IF strptime(value).raised = ""
    THEN [raised |-> "", text |-> "", value |-> value]
    ELSE [raised |-> "ValueError", text |-> "Invalid date format. Use DD.MM.YYYY", value |-> value]

(***************************************************************************)
(* Record: name, phones (list of Phone values), email, birthday.           *)
(***************************************************************************)
\* index of the first element of phones equal to phone, 0 when there is none
RECURSIVE FirstIndex(_, _, _)
FirstIndex(phones, phone, i) ==
    IF i > Len(phones) THEN 0
    ELSE IF phones[i] = phone THEN i
    ELSE FirstIndex(phones, phone, i + 1)

\* Record.add_phone: self.phones.append(Phone(phone))
add_phone(rec, phone) ==
    LET p == Phone(phone)
    IN  IF p.raised # ""
        THEN [raised |-> p.raised, text |-> p.text, rec |-> rec]
        ELSE [raised |-> "", text |-> "",
              rec |-> [rec EXCEPT !.phones = Append(@, p.value)]]

\* Record.__init__(name, phone=None, email=""); a phone left out is the
\* empty sequence, which "if phone:" skips like None
Record(name, phone, email) ==
    LET empty == [name |-> name, phones |-> <<>>, email |-> "", birthday |-> None]
        added == IF Len(phone) > 0
                 THEN add_phone(empty, phone)
                 ELSE [raised |-> "", text |-> "", rec |-> empty]
    IN  IF added.raised # ""
        THEN added
        ELSE [raised |-> "", text |-> "",
              rec |-> [added.rec EXCEPT !.email = email]]

\* Record.remove_phone: keeps the entries whose value differs from phone
remove_phone(rec, phone) ==
    LET Keep(p) == p # phone
    IN  [rec EXCEPT !.phones = SelectSeq(@, Keep)]

\* Record.edit_phone with every matching entry overwritten
edit_phone_all(rec, old_phone, new_phone) ==
    IF FirstIndex(rec.phones, old_phone, 1) = 0
    THEN [raised |-> "ValueError", text |-> "Phone number not found.", rec |-> rec]
    ELSE [raised |-> "", text |-> "",
          rec |-> [rec EXCEPT !.phones =
                     [j \in 1..Len(@) |-> IF @[j] = old_phone THEN new_phone ELSE @[j]]]]

\* Record.edit_phone: the first entry equal to old_phone gets new_phone as
\* its value (assigned to phone.value, no Phone is constructed); ValueError
\* when no entry matches.
edit_phone(rec, old_phone, new_phone) ==
    LET i == FirstIndex(rec.phones, old_phone, 1)
    IN  IF i = 0
        THEN [raised |-> "ValueError", text |-> "Phone number not found.", rec |-> rec]
        ELSE [raised |-> "", text |-> "",
              rec |-> [rec EXCEPT !.phones[i] = new_phone]]

\* Record.find_phone: the first entry equal to phone, or None
find_phone(rec, phone) ==
    LET i == FirstIndex(rec.phones, phone, 1)
    IN  IF i = 0 THEN None ELSE [none |-> FALSE, index |-> i, value |-> rec.phones[i]]

\* Record.add_birthday: self.birthday = Birthday(birthday)
add_birthday(rec, birthday) ==
    LET b == Birthday(birthday)
    IN  IF b.raised # ""
        THEN [raised |-> b.raised, text |-> b.text, rec |-> rec]
        ELSE [raised |-> "", text |-> "",
              rec |-> [rec EXCEPT !.birthday = [none |-> FALSE, value |-> b.value]]]

(***************************************************************************)
(* AddressBook.data: a dict, kept as the sequence of its items             *)
(* [key, rec] in insertion order.                                          *)
(***************************************************************************)
RECURSIVE KeyIndex(_, _, _)
KeyIndex(data, key, i) ==
    IF i > Len(data) THEN 0
    ELSE IF data[i].key = key THEN i
    ELSE KeyIndex(data, key, i + 1)

\* self.data[key] = rec
DictSet(data, key, rec) ==
    LET i == KeyIndex(data, key, 1)
    IN  IF i = 0 THEN Append(data, [key |-> key, rec |-> rec])
        ELSE [data EXCEPT ![i] = [key |-> key, rec |-> rec]]

\* del self.data[key]
DictDel(data, key) ==
    LET Keep(item) == item.key # key
    IN  SelectSeq(data, Keep)

\* AddressBook.add_record that carries the phones of the record it replaces
add_record_merge(data, record) ==
    LET i == KeyIndex(data, record.name, 1)
    IN  IF i = 0 THEN DictSet(data, record.name, record)
        ELSE DictSet(data, record.name,
                     [record EXCEPT !.phones = data[i].rec.phones \o @])

\* AddressBook.add_record: self.data[record.name.value] = record
add_record(data, record) == DictSet(data, record.name, record)

\* AddressBook.find: self.data.get(name)
find(data, name) ==
    LET i == KeyIndex(data, name, 1)
    IN  IF i = 0 THEN None ELSE [none |-> FALSE, rec |-> data[i].rec]

\* AddressBook.delete
delete(data, name) ==
    IF KeyIndex(data, name, 1) # 0 THEN DictDel(data, name) ELSE data

\* the weekend adjustment with the test for Sunday only
WeekendShiftSundayOnly(candidate) ==
    IF weekday(candidate) > Saturday
    THEN AddDays(candidate, WeekLen - weekday(candidate))
    ELSE candidate

\* lines 120-122: a Saturday or Sunday moves to the following Monday
WeekendShift(candidate) ==
    IF weekday(candidate) >= Saturday
    THEN AddDays(candidate, WeekLen - weekday(candidate))
    ELSE candidate

\* lines 110-127 for one record with a birthday: [raised, emit, entry]
BirthdayEntry(rec, today) ==
    LET parsed    == strptime(rec.birthday.value)
        thisYear  == replace(parsed.date, today.y)
        rolled    == IF ToOrdinal(thisYear.date) < ToOrdinal(today)
                     THEN replace(thisYear.date, today.y + 1)
                     ELSE thisYear
        days      == ToOrdinal(rolled.date) - ToOrdinal(today)
        noEntry   == [name |-> rec.name, birthday |-> today]
    IN  IF parsed.raised # "" \/ thisYear.raised # "" \/ rolled.raised # ""
        THEN [raised |-> "ValueError", emit |-> FALSE, entry |-> noEntry]
        ELSE IF 0 <= days /\ days <= WindowDays
        THEN [raised |-> "", emit |-> TRUE,
              entry |-> [name |-> rec.name, birthday |-> WeekendShift(rolled.date)]]
        ELSE [raised |-> "", emit |-> FALSE, entry |-> noEntry]

\* the loop of get_upcoming_birthdays from item i on, acc being the list so far
RECURSIVE UpcomingFrom(_, _, _, _)
UpcomingFrom(data, today, i, acc) ==
    IF i > Len(data) THEN [raised |-> "", value |-> acc]
    ELSE IF data[i].rec.birthday = None
    THEN UpcomingFrom(data, today, i + 1, acc)
    ELSE LET e == BirthdayEntry(data[i].rec, today)
         IN  IF e.raised # "" THEN [raised |-> e.raised, value |-> <<>>]
             ELSE UpcomingFrom(data, today, i + 1,
                               IF e.emit THEN Append(acc, e.entry) ELSE acc)

\* AddressBook.get_upcoming_birthdays, today being datetime.today().date()
get_upcoming_birthdays(data, today) == UpcomingFrom(data, today, 1, <<>>)

(***************************************************************************)
(* State.                                                                  *)
(***************************************************************************)
VARIABLES
    data,   \* AddressBook.data of the one address book
    file,   \* addressbook.pkl
    pc,     \* where main() is: "start", "loop", "done", "crashed";
            \* "library" when the classes are used without main()
    out,    \* what the last line read by main() made it print
    call,   \* the operation last called and its arguments
    ret     \* what that operation returned or raised

vars == <<data, file, pc, out, call, ret>>

NoDate == [d |-> 0, m |-> 0, y |-> 0]

Date(d, m, y) == [d |-> d, m |-> m, y |-> y]

Call(op, name, old, new, email, date) ==
    [op |-> op, name |-> name, old |-> old, new |-> new, email |-> email,
     date |-> date, args |-> <<>>]

\* a command read by main() with its argument list, on the day today
Command(op, args, today) ==
    [op |-> op, name |-> "", old |-> <<>>, new |-> <<>>, email |-> "",
     date |-> today, args |-> args]

NoCall == Call("", "", <<>>, <<>>, "", NoDate)

Returned(value) == [raised |-> "", text |-> "", value |-> value]

Raised(exc, text) == [raised |-> exc, text |-> text, value |-> <<>>]

NoOutput == [printed |-> FALSE, text |-> "", name |-> "", lines |-> <<>>]

NoFile == [kind |-> "absent", data |-> <<>>]

\* the record stored under name is mutated in place
Store(d, name, rec) == [d EXCEPT ![KeyIndex(d, name, 1)].rec = rec]

Names == {"ann", "bob"}

Emails == {"", "ann@x.org"}

(***************************************************************************)
(* The classes used as a library: one action per method call.              *)
(***************************************************************************)
\* book.add_record(Record(name, phone, email))
ApiAddRecord(phones, emails) ==
    \E n \in Names, p \in phones \cup {<<>>}, e \in emails :
        LET r == Record(n, p, e)
        IN  /\ call' = Call("add_record", n, p, <<>>, e, NoDate)
            /\ IF r.raised # ""
               THEN /\ ret' = Raised(r.raised, r.text)
                    /\ data' = data
               ELSE /\ ret' = Returned(<<>>)
                    /\ data' = add_record(data, r.rec)
            /\ UNCHANGED <<file, pc, out>>

\* book.delete(name)
ApiDelete ==
    \E n \in Names :
        /\ call' = Call("delete", n, <<>>, <<>>, "", NoDate)
        /\ ret' = Returned(<<>>)
        /\ data' = delete(data, n)
        /\ UNCHANGED <<file, pc, out>>

\* book.find(name).add_phone(phone)
ApiAddPhone(phones) ==
    \E n \in Names, p \in phones :
        /\ find(data, n) # None
        /\ Len(find(data, n).rec.phones) < MaxPhones
        /\ LET r == add_phone(find(data, n).rec, p)
           IN  /\ call' = Call("add_phone", n, p, <<>>, "", NoDate)
               /\ ret' = IF r.raised # "" THEN Raised(r.raised, r.text) ELSE Returned(<<>>)
               /\ data' = Store(data, n, r.rec)
        /\ UNCHANGED <<file, pc, out>>

\* book.find(name).remove_phone(phone)
ApiRemovePhone(phones) ==
    \E n \in Names, p \in phones :
        /\ find(data, n) # None
        /\ call' = Call("remove_phone", n, p, <<>>, "", NoDate)
        /\ ret' = Returned(<<>>)
        /\ data' = Store(data, n, remove_phone(find(data, n).rec, p))
        /\ UNCHANGED <<file, pc, out>>

\* book.find(name).edit_phone(old_phone, new_phone)
ApiEditPhone(phones) ==
    \E n \in Names, old \in phones, new \in phones :
        /\ find(data, n) # None
        /\ LET r == edit_phone(find(data, n).rec, old, new)
           IN  /\ call' = Call("edit_phone", n, old, new, "", NoDate)
               /\ ret' = IF r.raised # "" THEN Raised(r.raised, r.text) ELSE Returned(<<>>)
               /\ data' = Store(data, n, r.rec)
        /\ UNCHANGED <<file, pc, out>>

\* book.find(name).add_birthday(birthday)
ApiAddBirthday(dates) ==
    \E n \in Names, b \in dates :
        /\ find(data, n) # None
        /\ LET r == add_birthday(find(data, n).rec, b)
           IN  /\ call' = Call("add_birthday", n, <<>>, <<>>, "", b)
               /\ ret' = IF r.raised # "" THEN Raised(r.raised, r.text) ELSE Returned(<<>>)
               /\ data' = Store(data, n, r.rec)
        /\ UNCHANGED <<file, pc, out>>

\* book.get_upcoming_birthdays() on a day when datetime.today() is today
ApiUpcoming(todays) ==
    \E today \in todays :
        LET r == get_upcoming_birthdays(data, today)
        IN  /\ call' = Call("get_upcoming_birthdays", "", <<>>, <<>>, "", today)
            /\ ret' = IF r.raised # ""
                      THEN Raised(r.raised, "day is out of range for month")
                      ELSE Returned(r.value)
            /\ UNCHANGED <<data, file, pc, out>>

InitApi ==
    /\ data = <<>>
    /\ file = NoFile
    /\ pc = "library"
    /\ out = NoOutput
    /\ call = NoCall
    /\ ret = Returned(<<>>)

(***************************************************************************)
(* Record and its phones: construction, add_phone, remove_phone,           *)
(* edit_phone.                                                             *)
(***************************************************************************)
NextRecord ==
    \/ ApiAddRecord(PhoneArgs, {""})
    \/ ApiAddPhone(PhoneArgs)
    \/ ApiRemovePhone(PhoneArgs)
    \/ ApiEditPhone(PhoneArgs)

SpecRecord == InitApi /\ [][NextRecord]_vars

\* the record stored under name; only used where find(d, name) # None
RecOf(d, name) == find(d, name).rec

\* a string of exactly 10 decimal digits
TenDigits(p) == Len(p) = PhoneLen /\ \A i \in 1..Len(p) : p[i] \in AsciiDigits

\* C3: every element of every record's phones list is a string of exactly
\* 10 decimal digits, whatever sequence of Record construction, add_phone,
\* remove_phone and edit_phone calls led to the state.
C3_PhonesAreTenDigits ==
    \A i \in 1..Len(data) :
        \A j \in 1..Len(data[i].rec.phones) : TenDigits(data[i].rec.phones[j])

\* the lowest index at which phones holds old
LowestMatch(phones, old) ==
    CHOOSE i \in 1..Len(phones) :
        /\ phones[i] = old
        /\ \A j \in 1..(i - 1) : phones[j] # old

\* what C4 says of one step that is a call of edit_phone
C4_EditStep ==
    LET n      == call'.name
        old    == call'.old
        new    == call'.new
        before == RecOf(data, n)
        after  == RecOf(data', n)
    IN  call'.op = "edit_phone" =>
          IF \A j \in 1..Len(before.phones) : before.phones[j] # old
          THEN /\ ret'.raised = "ValueError"
               /\ ret'.text = "Phone number not found."
               /\ data' = data
          ELSE /\ ret'.raised = ""
               /\ Len(after.phones) = Len(before.phones)
               /\ after.phones[LowestMatch(before.phones, old)] = new
               /\ \A j \in 1..Len(before.phones) :
                     j # LowestMatch(before.phones, old) => after.phones[j] = before.phones[j]
               /\ after.name = before.name
               /\ after.email = before.email
               /\ after.birthday = before.birthday
               /\ find_phone(after, new) # None
               /\ Len(data') = Len(data)
               /\ \A m \in Names \ {n} : find(data', m) = find(data, m)

\* C4: edit_phone(old, new) fails with a not-found error and changes nothing
\* when no entry of phones equals old; otherwise exactly the first entry equal
\* to old takes the value new, every other entry (later duplicates of old
\* included), the length, the order and the other fields stay as they were,
\* and find_phone(new) then finds an entry.
C4_EditPhoneFirstMatch == [][C4_EditStep]_vars

\* edit_phone replaced the first of two entries equal to old and left the second
C4_Witness ==
    /\ call.op = "edit_phone"
    /\ ret.raised = ""
    /\ call.old # call.new
    /\ find(data, call.name) # None
    /\ Len(RecOf(data, call.name).phones) >= 2
    /\ RecOf(data, call.name).phones[1] = call.new
    /\ RecOf(data, call.name).phones[2] = call.old

(***************************************************************************)
(* AddressBook: add_record, find, delete, on records that carry phones,    *)
(* an e-mail and a birthday.                                               *)
(***************************************************************************)
\* 15.06.1990
B1990 == Date(15, 6, 1990)

NextBook ==
    \/ ApiAddRecord({P1, P2}, Emails)
    \/ ApiDelete
    \/ ApiAddPhone({P2})
    \/ ApiAddBirthday({B1990})

SpecBook == InitApi /\ [][NextBook]_vars

Keys(d) == {d[i].key : i \in 1..Len(d)}

\* what C5 says of one step
C5_BookStep ==
    LET n == call'.name
    IN  /\ \A i \in 1..Len(data') : data'[i].key = data'[i].rec.name
        /\ \A i, j \in 1..Len(data') : data'[i].key = data'[j].key => i = j
        /\ call'.op = "add_record" /\ ret'.raised = "" =>
              /\ find(data', n) # None
              /\ RecOf(data', n) =
                    [name |-> n,
                     phones |-> IF call'.old = <<>> THEN <<>> ELSE <<call'.old>>,
                     email |-> call'.email,
                     birthday |-> None]
              /\ \A m \in Names \ {n} : find(data', m) = find(data, m)
        /\ call'.op = "add_record" /\ ret'.raised # "" => data' = data
        /\ call'.op = "delete" =>
              /\ ret'.raised = ""
              /\ find(data', n) = None
              /\ \A m \in Names \ {n} : find(data', m) = find(data, m)
              /\ find(data, n) = None => data' = data
        /\ call'.op \notin {"add_record", "delete"} => Keys(data') = Keys(data)

\* C5: find(n) is the record last passed to add_record under the name n, with
\* that record's own phones, e-mail and birthday only, and is absent when n
\* was never added or was deleted since; every key is its record's name;
\* delete of an absent name changes nothing and raises nothing.
C5_FindReturnsLastAdded == [][C5_BookStep]_vars

\* add_record replaced the record of a name that was in the book before the
\* other name was added
C5_Witness ==
    /\ call.op = "add_record"
    /\ ret.raised = ""
    /\ Len(data) = 2
    /\ data[1].key = call.name

(***************************************************************************)
(* Birthdays: add_birthday and get_upcoming_birthdays, for birthdays and   *)
(* values of today around a weekend, a year's end and 29 February.         *)
(***************************************************************************)
\* the days start, start + 1, ..., start + more
DaysFrom(start, more) == {AddDays(start, k) : k \in 0..more}

\* 29.02.2024, 15.06.1990, 16.06.1991, 12.06.2000, 02.01.2000 and the
\* impossible 31.02.2024
BirthdayArgs ==
    {Date(29, 2, 2024), B1990, Date(16, 6, 1991), Date(12, 6, 2000),
     Date(2, 1, 2000), Date(31, 2, 2024)}

\* 08.06.2024 (a Saturday) to 17.06.2024, 27.12.2024 to 02.01.2025,
\* 22.02.2024 to 01.03.2024, 24.02.2020 to 29.02.2020 (a Saturday), and
\* 25.02.2025 in a year without 29 February
Todays ==
    DaysFrom(Date(8, 6, 2024), 9) \cup DaysFrom(Date(27, 12, 2024), 6)
      \cup DaysFrom(Date(22, 2, 2024), 8) \cup DaysFrom(Date(24, 2, 2020), 5)
      \cup {Date(25, 2, 2025)}

NextBirthdays ==
    \/ ApiAddRecord({P1}, {""})
    \/ ApiAddBirthday(BirthdayArgs)
    \/ ApiUpcoming(Todays)

SpecBirthdays == InitApi /\ [][NextBirthdays]_vars

\* the calendar order of two (day, month, year) triples
Before(a, b) ==
    \/ a.y < b.y
    \/ a.y = b.y /\ a.m < b.m
    \/ a.y = b.y /\ a.m = b.m /\ a.d < b.d

\* the candidate of the claims: the birthday's (day, month) in today's year,
\* or in the year after when that is strictly before today
Candidate(b, today) ==
    IF Before(Date(b.d, b.m, today.y), today)
    THEN Date(b.d, b.m, today.y + 1)
    ELSE Date(b.d, b.m, today.y)

DaysUntil(b, today) == ToOrdinal(Candidate(b, today)) - ToOrdinal(today)

InWindow(b, today) == 0 <= DaysUntil(b, today) /\ DaysUntil(b, today) <= WindowDays

\* the last call's result has an entry for name
Listed(name) == \E k \in 1..Len(ret.value) : ret.value[k].name = name

\* C1: get_upcoming_birthdays returns an entry for a record if and only if
\* the record has a birthday and 0 <= days_until <= 7, days_until counted
\* from today to the candidate; a record without birthday never appears.
\* (Said of every record whose candidate is a date of the calendar.)
C1_UpcomingIffInWindow ==
    call.op = "get_upcoming_birthdays" =>
        \A i \in 1..Len(data) :
            LET rec == data[i].rec
            IN  IF rec.birthday = None
                THEN ~Listed(rec.name)
                ELSE IsDate(Candidate(rec.birthday.value, call.date)) =>
                        (Listed(rec.name) <=> InWindow(rec.birthday.value, call.date))

\* what C2 says of one entry of the result
C2_EntryOk(e) ==
    LET today == call.date
        b     == RecOf(data, e.name).birthday.value
        cand  == Candidate(b, today)
        shift == ToOrdinal(e.birthday) - ToOrdinal(cand)
    IN  /\ find(data, e.name) # None
        /\ RecOf(data, e.name).birthday # None
        /\ IsDate(cand)
        /\ IsDate(e.birthday)
        /\ InWindow(b, today)
        /\ weekday(e.birthday) < Saturday
        /\ weekday(cand) < Saturday => shift = 0
        /\ weekday(cand) = Saturday => shift = 2 /\ weekday(e.birthday) = 0
        /\ weekday(cand) = Saturday + 1 => shift = 1 /\ weekday(e.birthday) = 0

\* C2: the reported date of every entry is the candidate when that is a
\* Monday..Friday and the Monday after it when it is a Saturday (+2) or a
\* Sunday (+1), so it is never a Saturday or Sunday; the 0..7 window is
\* tested on the candidate, not on the reported date: a weekend candidate
\* inside the window is listed whenever the query returns.
C2_ReportedDateSkipsWeekend ==
    call.op = "get_upcoming_birthdays" =>
        /\ \A k \in 1..Len(ret.value) : C2_EntryOk(ret.value[k])
        /\ ret.raised = "" =>
              \A i \in 1..Len(data) :
                  LET rec == data[i].rec
                  IN  (/\ rec.birthday # None
                       /\ IsDate(Candidate(rec.birthday.value, call.date))
                       /\ weekday(Candidate(rec.birthday.value, call.date)) >= Saturday
                       /\ InWindow(rec.birthday.value, call.date))
                      => Listed(rec.name)

\* an entry whose candidate is a Saturday is reported two days later, more
\* than 7 days after today
C2_Witness ==
    /\ call.op = "get_upcoming_birthdays"
    /\ \E k \in 1..Len(ret.value) :
          LET e == ret.value[k]
              cand == Candidate(RecOf(data, e.name).birthday.value, call.date)
          IN  /\ weekday(cand) = Saturday
              /\ ToOrdinal(e.birthday) = ToOrdinal(cand) + 2
              /\ ToOrdinal(e.birthday) - ToOrdinal(call.date) > WindowDays

\* C10: get_upcoming_birthdays returns a list without raising, for every
\* address book whose birthdays were accepted by Birthday and every today.
C10_UpcomingNeverRaises ==
    call.op = "get_upcoming_birthdays" =>
        /\ ret.raised = ""
        /\ \A i \in 1..Len(data) :
              data[i].rec.birthday # None => IsDate(data[i].rec.birthday.value)

(***************************************************************************)
(* Phone validation on its own: Phone(value) for every string of about     *)
(* PhoneLen characters over a digit, a letter and a non-ASCII digit.       *)
(***************************************************************************)
\* '9', 'a' and ARABIC-INDIC DIGIT FIVE
Alphabet == {57, 97, 1637}

PhoneStrings ==
    UNION {[1..n -> Alphabet] : n \in (PhoneLen - LenSlack)..(PhoneLen + LenSlack)}

InitPhone ==
    /\ data = <<>>
    /\ file = NoFile
    /\ pc = "library"
    /\ out = NoOutput
    /\ call \in {Call("input", "", s, <<>>, "", NoDate) : s \in PhoneStrings}
    /\ ret = Returned(<<>>)

\* Phone(value)
ApiPhone ==
    /\ call.op = "input"
    /\ LET p == Phone(call.old)
       IN  /\ call' = [call EXCEPT !.op = "Phone"]
           /\ ret' = IF p.raised # "" THEN Raised(p.raised, p.text) ELSE Returned(p.value)
    /\ UNCHANGED <<data, file, pc, out>>

NextPhone == ApiPhone

SpecPhone == InitPhone /\ [][NextPhone]_vars

\* C6: Phone accepts a string if and only if it has exactly 10 characters,
\* all of them ASCII decimal digits '0'..'9'; any other string (a non-ASCII
\* digit included) raises the validation error, and an accepted string is
\* stored unchanged.
C6_PhoneAcceptsTenAsciiDigits ==
    call.op = "Phone" =>
        /\ ret.raised = "" <=> TenDigits(call.old)
        /\ ret.raised = "" => ret.value = call.old
        /\ ret.raised # "" => ret.raised = "ValueError"

(***************************************************************************)
(* The command handlers.  A handler returns [raised, text, out, data]:     *)
(* the exception it raises with its text, or the message it returns, and   *)
(* the address book it leaves.                                             *)
(***************************************************************************)
Message(text, name, lines) == [printed |-> TRUE, text |-> text, name |-> name, lines |-> lines]

HandlerReturns(text, name, lines, d) ==
    [raised |-> "", text |-> "", out |-> Message(text, name, lines), data |-> d]

HandlerRaises(exc, text, name, d) ==
    [raised |-> exc, text |-> text, out |-> Message(text, name, <<>>), data |-> d]

\* the ValueError of an unpacking assignment ("name, phone, *rest = args")
\* whose right side has too few or too many values
UnpackError(args, atLeast, d) ==
    HandlerRaises("ValueError",
                  IF Len(args) < atLeast THEN "not enough values to unpack"
                  ELSE "too many values to unpack", "", d)

\* add_contact(args, book)
add_contact(args, d) ==
    IF Len(args) < 2 THEN UnpackError(args, 2, d)
    ELSE
    LET name  == args[1]
        phone == args[2]
        email == IF Len(args) > 2 THEN args[3] ELSE ""
    IN  IF find(d, name) = None
        THEN LET r == Record(name, phone, email)
             IN  IF r.raised # "" THEN HandlerRaises(r.raised, r.text, "", d)
                 ELSE HandlerReturns("Contact added.", "", <<>>, add_record(d, r.rec))
        ELSE LET r == IF Len(phone) > 0 THEN add_phone(RecOf(d, name), phone)
                      ELSE [raised |-> "", text |-> "", rec |-> RecOf(d, name)]
             IN  IF r.raised # "" THEN HandlerRaises(r.raised, r.text, "", d)
                 ELSE HandlerReturns("Contact updated.", "", <<>>,
                        Store(d, name, IF email # "" THEN [r.rec EXCEPT !.email = email]
                                       ELSE r.rec))

\* change_contact(args, book)
change_contact(args, d) ==
    IF Len(args) # 3 THEN UnpackError(args, 3, d)
    ELSE
    LET name == args[1]
    IN  IF find(d, name) # None
        THEN LET r == edit_phone(RecOf(d, name), args[2], args[3])
             IN  IF r.raised # "" THEN HandlerRaises(r.raised, r.text, "", d)
                 ELSE HandlerReturns("Contact updated.", "", <<>>, Store(d, name, r.rec))
        ELSE HandlerRaises("ValueError", "Contact {name} not found.", name, d)

\* show_phone(args, book)
show_phone(args, d) ==
    IF Len(args) < 1 THEN HandlerRaises("IndexError", "list index out of range", "", d)
    ELSE
    LET name == args[1]
    IN  IF find(d, name) # None /\ Len(RecOf(d, name).phones) > 0
        THEN HandlerReturns("{name}: {phones}", name, RecOf(d, name).phones, d)
        ELSE HandlerRaises("ValueError", "No phone found for {name}.", name, d)

\* show_all_contacts(book)
show_all_contacts(d) ==
    IF Len(d) = 0 THEN HandlerReturns("No contacts found.", "", <<>>, d)
    ELSE HandlerReturns("{records}", "", [i \in 1..Len(d) |-> d[i].rec], d)

\* the add_birthday command handler
add_birthday_command(args, d) ==
    IF Len(args) # 2 THEN UnpackError(args, 2, d)
    ELSE
    LET name == args[1]
    IN  IF find(d, name) # None
        THEN LET r == add_birthday(RecOf(d, name), args[2])
             IN  IF r.raised # "" THEN HandlerRaises(r.raised, r.text, "", d)
                 ELSE HandlerReturns("Birthday added for {name}.", name, <<>>,
                                     Store(d, name, r.rec))
        ELSE HandlerRaises("ValueError", "Contact {name} not found.", name, d)

\* show_birthday(args, book)
show_birthday(args, d) ==
    IF Len(args) < 1 THEN HandlerRaises("IndexError", "list index out of range", "", d)
    ELSE
    LET name == args[1]
    IN  IF find(d, name) # None /\ RecOf(d, name).birthday # None
        THEN HandlerReturns("{name}'s birthday is {birthday}", name,
                            <<RecOf(d, name).birthday.value>>, d)
        ELSE HandlerRaises("ValueError", "No birthday found for {name}.", name, d)

\* birthdays(book)
birthdays(d, today) ==
    LET upcoming == get_upcoming_birthdays(d, today)
    IN  IF upcoming.raised # ""
        THEN HandlerRaises(upcoming.raised, "day is out of range for month", "", d)
        ELSE IF Len(upcoming.value) = 0
        THEN HandlerReturns("No upcoming birthdays in the next week.", "", <<>>, d)
        ELSE HandlerReturns("{name}: {birthday}", "", upcoming.value, d)

\* input_error.wrapper that lets a ValueError through
input_error_no_value_error(h) ==
    IF h.raised = "" THEN [raised |-> "", out |-> h.out]
    ELSE IF h.raised = "ValueError" THEN [raised |-> h.raised, out |-> NoOutput]
    ELSE IF h.raised = "IndexError"
    THEN [raised |-> "", out |-> Message("Please provide all necessary arguments.", "", <<>>)]
    ELSE IF h.raised = "KeyError"
    THEN [raised |-> "", out |-> Message("Contact not found.", "", <<>>)]
    ELSE [raised |-> "", out |-> Message("An unexpected error occurred: {e}", h.text, <<>>)]

\* input_error.wrapper: what the decorated handler returns to main()
input_error(h) ==
    IF h.raised = "" THEN [raised |-> "", out |-> h.out]
    ELSE IF h.raised = "ValueError" THEN [raised |-> "", out |-> h.out]
    ELSE IF h.raised = "IndexError"
    THEN [raised |-> "", out |-> Message("Please provide all necessary arguments.", "", <<>>)]
    ELSE IF h.raised = "KeyError"
    THEN [raised |-> "", out |-> Message("Contact not found.", "", <<>>)]
    ELSE [raised |-> "", out |-> Message("An unexpected error occurred: {e}", h.text, <<>>)]

(***************************************************************************)
(* Persistence.                                                            *)
(***************************************************************************)
\* the exceptions open() and pickle.load() can raise on addressbook.pkl:
\* a missing file, a file of no bytes, a dump cut short (EOFError or
\* UnpicklingError, by the place of the cut), bytes that are no pickle
LoadOutcomes(f) ==
    IF f.kind = "absent" THEN {"FileNotFoundError"}
    ELSE IF f.kind = "empty" THEN {"EOFError"}
    ELSE IF f.kind = "truncated" THEN {"EOFError", "UnpicklingError"}
    ELSE IF f.kind = "garbage" THEN {"UnpicklingError"}
    ELSE {""}

\* pickle.UnpicklingError and pickle.PicklingError
PickleErrors == {"UnpicklingError", "PicklingError"}

\* AddressBook.load_from_file, exc being what open / pickle.load raises
load_from_file(d, f, exc) ==
    IF exc = "" THEN [raised |-> "", data |-> f.data]
    ELSE IF exc \in {"FileNotFoundError"} \cup PickleErrors
    THEN [raised |-> "", data |-> <<>>]
    ELSE [raised |-> exc, data |-> d]

\* AddressBook.save_to_file, exc being what open(filename, "wb") raises
save_to_file(d, f, exc) ==
    IF exc = "" THEN [raised |-> "", file |-> [kind |-> "valid", data |-> d]]
    ELSE [raised |-> exc, file |-> f]

(***************************************************************************)
(* main().                                                                 *)
(***************************************************************************)
\* a book saved by an earlier run
SavedBook == add_record(<<>>, Record("ann", P1, "").rec)

InitialFiles ==
    {NoFile,
     [kind |-> "empty", data |-> <<>>],
     [kind |-> "truncated", data |-> <<>>],
     [kind |-> "garbage", data |-> <<>>],
     [kind |-> "valid", data |-> <<>>],
     [kind |-> "valid", data |-> SavedBook]}

\* the days on which the program runs: 10.06.2024 and 25.02.2025
RunDays == {Date(10, 6, 2024), Date(25, 2, 2025)}

\* the names that add is given, and the names the other commands are given
AddNames == {"ann"}

AddArgs ==
    {<<>>} \cup {<<n>> : n \in AddNames}
      \cup {<<n, p>> : n \in AddNames, p \in {P1, PShort}}
      \cup {<<n, p, e>> : n \in AddNames, p \in {P1}, e \in Emails \ {""}}

ChangeArgs ==
    {<<>>} \cup {<<n, old>> : n \in Names, old \in {P1}}
      \cup {<<n, old, new>> : n \in Names, old \in {P1, P2}, new \in {P2, PAlpha}}
      \cup {<<n, old, new, new>> : n \in AddNames, old \in {P1}, new \in {P2}}

NameArgs == {<<>>} \cup {<<n>> : n \in Names}

BirthdayCommandArgs ==
    NameArgs
      \cup {<<n, b>> : n \in Names, b \in {Date(29, 2, 2024), B1990, Date(31, 2, 2024)}}
      \cup {<<n, b, b>> : n \in AddNames, b \in {B1990}}

Init ==
    /\ data = <<>>
    /\ file \in InitialFiles
    /\ pc = "start"
    /\ out = NoOutput
    /\ call = NoCall
    /\ ret = Returned(<<>>)

\* book = AddressBook(); book.load_from_file(); print("Welcome ...")
Load ==
    /\ pc = "start"
    /\ \E exc \in LoadOutcomes(file) :
          LET r == load_from_file(data, file, exc)
          IN  /\ call' = Command("load_from_file", <<>>, NoDate)
              /\ data' = r.data
              /\ IF r.raised # ""
                 THEN /\ ret' = Raised(r.raised, "")
                      /\ pc' = "crashed"
                      /\ out' = NoOutput
                 ELSE /\ ret' = Returned(<<>>)
                      /\ pc' = "loop"
                      /\ out' = Message("Welcome to the enhanced assistant bot!", "", <<>>)
    /\ UNCHANGED file

\* print(handler(args, book)) for the handler result h
PrintHandler(op, args, today, h) ==
    LET w == input_error(h)
    IN  /\ call' = Command(op, args, today)
        /\ data' = h.data
        /\ IF w.raised # ""
           THEN /\ ret' = Raised(w.raised, h.text)
                /\ out' = NoOutput
                /\ pc' = "crashed"
           ELSE /\ ret' = Returned(<<>>)
                /\ out' = w.out
                /\ pc' = "loop"
        /\ UNCHANGED file

\* a line of blanks only: "if not user_input: continue"
EmptyLine ==
    /\ pc = "loop"
    /\ call' = Command("(empty)", <<>>, NoDate)
    /\ ret' = Returned(<<>>)
    /\ out' = NoOutput
    /\ UNCHANGED <<data, file, pc>>

\* "menu": the list of commands is printed
Menu ==
    /\ pc = "loop"
    /\ call' = Command("menu", <<>>, NoDate)
    /\ ret' = Returned(<<>>)
    /\ out' = Message("Available commands:", "", <<>>)
    /\ UNCHANGED <<data, file, pc>>

Hello ==
    /\ pc = "loop"
    /\ call' = Command("hello", <<>>, NoDate)
    /\ ret' = Returned(<<>>)
    /\ out' = Message("How can I help you?", "", <<>>)
    /\ UNCHANGED <<data, file, pc>>

\* any other first word
InvalidCommand ==
    /\ pc = "loop"
    /\ call' = Command("(other)", <<>>, NoDate)
    /\ ret' = Returned(<<>>)
    /\ out' = Message("Invalid command. Type 'menu' to see available commands.", "", <<>>)
    /\ UNCHANGED <<data, file, pc>>

AddCommand ==
    /\ pc = "loop"
    /\ \E args \in AddArgs :
          /\ Len(args) >= 2 /\ find(data, args[1]) # None
                => Len(RecOf(data, args[1]).phones) < MaxPhones
          /\ PrintHandler("add", args, NoDate, add_contact(args, data))

ChangeCommand ==
    /\ pc = "loop"
    /\ \E args \in ChangeArgs :
          PrintHandler("change", args, NoDate, change_contact(args, data))

PhoneCommand ==
    /\ pc = "loop"
    /\ \E args \in NameArgs :
          PrintHandler("phone", args, NoDate, show_phone(args, data))

AllCommand ==
    /\ pc = "loop"
    /\ PrintHandler("all", <<>>, NoDate, show_all_contacts(data))

AddBirthdayCommand ==
    /\ pc = "loop"
    /\ \E args \in BirthdayCommandArgs :
          PrintHandler("add-birthday", args, NoDate, add_birthday_command(args, data))

ShowBirthdayCommand ==
    /\ pc = "loop"
    /\ \E args \in NameArgs :
          PrintHandler("show-birthday", args, NoDate, show_birthday(args, data))

BirthdaysCommand ==
    /\ pc = "loop"
    /\ \E today \in RunDays :
          PrintHandler("birthdays", <<>>, today, birthdays(data, today))

\* "close" or "exit": book.save_to_file(), then the loop is left
Exit ==
    /\ pc = "loop"
    /\ \E op \in {"close", "exit"}, exc \in {"", "PermissionError"} :
          LET r == save_to_file(data, file, exc)
          IN  /\ call' = Command(op, <<>>, NoDate)
              /\ file' = r.file
              /\ IF r.raised # ""
                 THEN /\ ret' = Raised(r.raised, "")
                      /\ out' = NoOutput
                      /\ pc' = "crashed"
                 ELSE /\ ret' = Returned(<<>>)
                      /\ out' = Message("Data saved. Good bye!", "", <<>>)
                      /\ pc' = "done"
    /\ UNCHANGED data

Next ==
    \/ Load
    \/ EmptyLine
    \/ Menu
    \/ Hello
    \/ InvalidCommand
    \/ AddCommand
    \/ ChangeCommand
    \/ PhoneCommand
    \/ AllCommand
    \/ AddBirthdayCommand
    \/ ShowBirthdayCommand
    \/ BirthdaysCommand
    \/ Exit

Spec == Init /\ [][Next]_vars

\* the number of arguments a command unpacks
Required(op) == IF op = "change" THEN 3 ELSE 2

GenericText == "Please provide all necessary arguments."

\* the texts of the validation and not-found failures
FailureTexts ==
    {"Phone number must be 10 digits.", "Invalid date format. Use DD.MM.YYYY",
     "Phone number not found.", "Contact {name} not found.", "Contact not found.",
     "No phone found for {name}.", "No birthday found for {name}."}

\* what C7 says of one step of the command loop
C7_Step ==
    (/\ pc = "loop"
     /\ call'.op \in {"add", "change", "add-birthday"}
     /\ Len(call'.args) < Required(call'.op))
    => /\ out'.printed
       /\ out'.text = GenericText
       /\ out'.text \notin FailureTexts
       /\ data' = data

\* C7: add with fewer than 2 arguments, change with fewer than 3 and
\* add-birthday with fewer than 2 answer with the generic "provide all
\* arguments" message, which is none of the validation or not-found
\* messages, and leave the address book unchanged.
C7_MissingArgumentsGeneric == [][C7_Step]_vars

\* C8: load_from_file returns normally whatever the file holds (absent,
\* empty, cut short, no pickle, a saved book), the book is empty afterwards
\* unless the file held a saved book, and main() goes on to the command loop.
C8_LoadNeverFails ==
    call.op = "load_from_file" =>
        /\ ret.raised = ""
        /\ pc = "loop"
        /\ data = IF file.kind = "valid" THEN file.data ELSE <<>>

\* the first words main() dispatches on, other than close and exit
LineCommands ==
    {"menu", "hello", "(other)", "add", "change", "phone", "all",
     "add-birthday", "show-birthday", "birthdays"}

\* the loop is left on close or exit only, save_to_file having been called
C9_EndsOnlyOnExit ==
    /\ pc = "done" =>
          /\ call.op \in {"close", "exit"}
          /\ ret.raised = ""
          /\ file = [kind |-> "valid", data |-> data]
    /\ pc = "crashed" /\ call.op # "load_from_file" =>
          /\ call.op \in {"close", "exit"}
          /\ ret.raised = "PermissionError"

\* C9 as stated: once the loop runs, every line whose command is not close
\* or exit, the empty line included, is answered with a message and the loop
\* goes on to the next prompt; the loop ends only on close or exit, after
\* save_to_file was called.
C9_EveryLineAnswered ==
    /\ call.op \in LineCommands \cup {"(empty)"} => out.printed /\ pc = "loop"
    /\ C9_EndsOnlyOnExit

\* C9 as amended: every line with a first word other than close or exit is
\* answered with a message, the empty line is answered with nothing, and in
\* both cases the loop goes on to the next prompt; the loop ends only on
\* close or exit, after save_to_file was called.
C9_NonEmptyLineAnswered ==
    /\ call.op \in LineCommands => out.printed /\ pc = "loop"
    /\ call.op = "(empty)" => ~out.printed /\ pc = "loop"
    /\ C9_EndsOnlyOnExit

\* a failure raised inside get_upcoming_birthdays was answered with its text
\* and the loop went on
C9_Witness ==
    /\ call.op = "birthdays"
    /\ out.printed
    /\ out.text = "day is out of range for month"
    /\ pc = "loop"

====
